---- MODULE Spec2Model ----
(***************************************************************************)
(* Model of src/speech_to_text.py: the Whisper service wrapper             *)
(* (SpeechToTextService), the lazy proxy (_LazySTT) behind the module      *)
(* global stt_service, and the legacy one-argument transcribe_audio.       *)
(*                                                                         *)
(* Python values are encoded as follows.  A str is a sequence of           *)
(* one-character strings, wrapped as PyStr; None is PyNone; a dict key     *)
(* that is not there is Missing.  A call outcome is either Return(v) or    *)
(* Raise(e) with e the exception class name.  Probabilities are the        *)
(* integers 0..ProbDenominator, standing for k / ProbDenominator, and a    *)
(* float computed from them is the reduced fraction [num, den].            *)
(***************************************************************************)
EXTENDS Integers, Sequences, FiniteSets, TLC

\* ---------------------------------------------------------------- bounds
NumCallers == 2
NumUploaders == 1
MaxCalls == 2
MaxSegs == 2
MaxEnd == 1
ProbDenominator == 2

\* ---------------------------------------------------------------- values
\* Python values, tagged with their type so that no two kinds are ever
\* compared with each other.  Missing is a dict key that is not there.
Missing == [t |-> "missing"]
PyNone == [t |-> "None"]
PyStr(s) == [t |-> "str", v |-> s]
PyList(l) == [t |-> "list", v |-> l]

\* An optional numeric dict entry: <<>> when the key is missing, <<n>> otherwise.
NoKey == <<>>
Key(n) == <<n>>

Return(v) == [kind |-> "return", value |-> v]
Raise(e) == [kind |-> "raise", exc |-> e]
NoOutcome == [kind |-> "none"]

Callers == 1..NumCallers
Uploaders == { c \in Callers : c <= NumUploaders }

\* The characters str.strip() removes (line 66): the ASCII whitespace -- space,
\* \t, \n, \r, \f, vertical tab and the separators \x1c..\x1f -- and the
\* other characters for which str.isspace() is true.  A character that has
\* no escape here is written as its Python escape.
Whitespace ==
    { " ", "\t", "\n", "\r", "\f", "\\x0b", "\\x1c", "\\x1d", "\\x1e", "\\x1f",
      "\\x85", "\\xa0", "\\u1680", "\\u2000", "\\u2001", "\\u2002", "\\u2003",
      "\\u2004", "\\u2005", "\\u2006", "\\u2007", "\\u2008", "\\u2009", "\\u200a",
      "\\u2028", "\\u2029", "\\u202f", "\\u205f", "\\u3000" }

\* The text a Whisper result may carry under "text" (or not carry at all).
SampleTexts ==
    { <<>>, <<" ">>, <<"a">>, <<" ", "a">>, <<"a", "\n">>,
      <<" ", "a", " ", "b", " ">>, <<"\t", "a", "\\x0b", "b", "\r">> }
TextValues == { PyStr(s) : s \in SampleTexts } \cup {Missing, PyNone}

\* One segment of a Whisper result: a dict that may or may not have the
\* keys "end" and "no_speech_prob".
Segments ==
    [end : { Key(n) : n \in 0..MaxEnd } \cup {NoKey},
     no_speech_prob : { Key(n) : n \in 0..ProbDenominator } \cup {NoKey}]

RECURSIVE SeqsUpTo(_, _)
SeqsUpTo(S, n) ==
    IF n = 0 THEN { <<>> }
    ELSE LET shorter == SeqsUpTo(S, n - 1)
         IN  shorter \cup { Append(s, x) : s \in { q \in shorter : Len(q) = n - 1 }, x \in S }

SegmentLists == SeqsUpTo(Segments, MaxSegs)
SegmentsValues == { PyList(l) : l \in SegmentLists } \cup {Missing, PyNone}

\* The dict whisper's model.transcribe returns.
WhisperResults ==
    [text : TextValues, language : {PyStr(<<"e", "n">>), Missing}, segments : SegmentsValues]

\* The language argument of transcribe_audio / transcribe_audio_file.
LanguageHints == {PyNone, PyStr(<<>>), PyStr(<<"e", "n">>)}

\* --------------------------------------------------- str.strip (line 66)
RECURSIVE LStrip(_)
LStrip(s) ==
    IF s = <<>> THEN s
    ELSE IF Head(s) \in Whitespace THEN LStrip(Tail(s)) ELSE s

RECURSIVE RStrip(_)
RStrip(s) ==
    IF s = <<>> THEN s
    ELSE IF s[Len(s)] \in Whitespace THEN RStrip(SubSeq(s, 1, Len(s) - 1)) ELSE s

strip(s) == RStrip(LStrip(s))

\* ------------------------------------------------ float division (line 96)
RECURSIVE GCD(_, _)
GCD(a, b) == IF b = 0 THEN a ELSE GCD(b, a % b)

Frac(n, d) == LET g == GCD(n, d) IN [num |-> n \div g, den |-> d \div g]
Zero == Frac(0, 1)

\* A variant of the loop that counts every segment, with or without the key.
RECURSIVE confidence_loop_all(_, _, _, _)
confidence_loop_all(segments, i, total_confidence, count) ==
    IF i > Len(segments)
      THEN IF count > 0 THEN Frac(total_confidence, count * ProbDenominator) ELSE Zero
      ELSE IF segments[i].no_speech_prob # NoKey
             THEN confidence_loop_all(segments, i + 1,
                                      total_confidence + (ProbDenominator - segments[i].no_speech_prob[1]),
                                      count + 1)
             ELSE confidence_loop_all(segments, i + 1, total_confidence, count + 1)

\* ------------------------------- _calculate_confidence (lines 81-96)
\* The for loop of lines 89-94 followed by the return of line 96.
RECURSIVE confidence_loop(_, _, _, _)
confidence_loop(segments, i, total_confidence, count) ==
    IF i > Len(segments)
      THEN IF count > 0 THEN Frac(total_confidence, count * ProbDenominator) ELSE Zero
      ELSE IF segments[i].no_speech_prob # NoKey
             THEN confidence_loop(segments, i + 1,
                                  total_confidence + (ProbDenominator - segments[i].no_speech_prob[1]),
                                  count + 1)
             ELSE confidence_loop(segments, i + 1, total_confidence, count)

_calculate_confidence(segments) ==
    IF segments = <<>> THEN Zero
    ELSE confidence_loop(segments, 1, 0, 0)

\* A variant of line 61 that filters on truthiness instead of "is not None".
build_options_truthy(language) ==
    LET options == [k \in {"language", "task", "fp16"} |->
                      CASE k = "language" -> language
                        [] k = "task" -> PyStr(<<"transcribe">>)
                        [] k = "fp16" -> [t |-> "bool", v |-> FALSE]]
    IN  [k \in { j \in DOMAIN options :
                   options[j].t # "None" /\ ~(options[j].t = "str" /\ options[j].v = <<>>) }
           |-> options[k]]

\* ------------------------------------ option assembly (lines 54-61)
build_options(language) ==
    LET options == [k \in {"language", "task", "fp16"} |->
                      CASE k = "language" -> language
                        [] k = "task" -> PyStr(<<"transcribe">>)
                        [] k = "fp16" -> [t |-> "bool", v |-> FALSE]]
    IN  [k \in { j \in DOMAIN options : options[j].t # "None" } |-> options[k]]

\* ------------------------------------ normalisation (lines 66-75)
\* result.get("segments", default)
get_segments(result, default) ==
    IF result.segments.t = "missing" THEN default ELSE result.segments

\* Python truthiness of result.get("segments"): a non-empty list only.
segments_truthy(result) ==
    result.segments.t = "list" /\ result.segments.v # <<>>

\* A variant of line 69 that reads the first segment instead of the last.
duration_of_first(result) ==
    IF segments_truthy(result)
      THEN LET first == result.segments.v[1]
           IN  IF first.end = NoKey THEN 0 ELSE first.end[1]
      ELSE 0

\* line 69
duration_of(result) ==
    IF segments_truthy(result)
      THEN LET segments == get_segments(result, PyList(<<[end |-> NoKey]>>)).v
               last == segments[Len(segments)]
           IN  IF last.end = NoKey THEN 0 ELSE last.end[1]
      ELSE 0

\* lines 66-75: the (text, metadata) pair, or the exception the dict
\* accesses raise on a malformed result.
normalize(result) ==
    IF result.text.t = "missing" THEN Raise("KeyError")
    ELSE IF result.text.t = "None" THEN Raise("AttributeError")
    ELSE IF get_segments(result, PyList(<<>>)).t = "None" THEN Raise("TypeError")
    ELSE Return([text |-> strip(result.text.v),
                 metadata |->
                   [language |-> IF result.language.t = "missing"
                                   THEN PyStr(<<"unknown">>) ELSE result.language,
                    duration |-> duration_of(result),
                    segments |-> Len(get_segments(result, PyList(<<>>)).v),
                    confidence |-> _calculate_confidence(get_segments(result, PyList(<<>>)).v)]])

\* A variant of lines 50-51 that never raises.
check_path_skipped(exists) == NoOutcome

\* A variant of lines 50-51 with the test the wrong way round.
check_path_inverted(exists) ==
    IF exists THEN Raise("FileNotFoundError") ELSE NoOutcome

\* ------------------------------- transcribe_audio (lines 38-79)
\* lines 50-51: exists is os.path.exists(file_path).
check_path(exists) ==
    IF ~exists THEN Raise("FileNotFoundError") ELSE NoOutcome

\* lines 53-75, once the check has passed: model is self.model, answer is
\* what self.model.transcribe does at line 64 when it is reached.
transcribe_checked(model, language, answer) ==
    IF model = "None" THEN Raise("AttributeError")
    ELSE IF answer.kind = "raise" THEN answer
    ELSE normalize(answer.value)

\* A variant of transcribe_audio whose except clause raises an error of its own.
transcribe_audio_translating(exists, model, language, answer) ==
    IF ~exists THEN Raise("FileNotFoundError")
    ELSE IF model = "None" THEN Raise("AttributeError")
    ELSE IF answer.kind = "raise" THEN Raise("TranscriptionError")
    ELSE normalize(answer.value)

\* The whole method, with the path looked at and the model invoked in one go.
transcribe_audio(exists, model, language, answer) ==
    IF check_path(exists).kind = "raise" THEN check_path(exists)
    ELSE transcribe_checked(model, language, answer)

\* True when line 64 is reached, that is when self.model.transcribe is called.
invokes_model(exists, model) == check_path(exists).kind # "raise" /\ model # "None"

\* ------------------------- model size and load (lines 21-32, 136-140)
\* The WHISPER_MODEL environment variable: PyNone when it is not set.
EnvValues == {PyNone, PyStr(<<>>), PyStr(<<"tiny">>), PyStr(<<"base">>)}

\* os.getenv(name, default)
getenv(env, default) == IF env.t = "None" THEN default ELSE env

\* Python truthiness of a str or None.
truthy(x) == x.t = "str" /\ x.v # <<>>

\* A variant of line 22 that tests "is not None" instead of truthiness.
init_model_size_not_none(env, model_size) ==
    LET env_model == getenv(env, PyNone)
    IN  IF env_model.t # "None" THEN env_model
        ELSE IF model_size.t # "None" THEN model_size ELSE PyStr(<<"tiny">>)

\* SpeechToTextService.__init__, lines 21-22.
init_model_size(env, model_size) ==
    LET env_model == getenv(env, PyNone)
    IN  IF truthy(env_model) THEN env_model
        ELSE IF truthy(model_size) THEN model_size ELSE PyStr(<<"tiny">>)

\* self.model after __init__, line 23.
constructed_model == "None"

\* _ensure, lines 136-138: the size of the service it constructs.
ensure_model_size(env) == init_model_size(env, getenv(env, PyStr(<<"tiny">>)))

\* The arguments of whisper.load_model at line 32, by parameter name.
load_model_args(model_size) == [k \in {"name"} |-> model_size]

\* A variant of the legacy function that hides a failure behind an empty text.
legacy_return_swallowing(ret) ==
    IF ret.kind = "return" THEN Return(ret.value.text) ELSE Return(<<>>)

\* ------------------------- legacy transcribe_audio (lines 151-162)
\* text, _ = stt_service.transcribe_audio(file_path); return text
legacy_return(ret) ==
    IF ret.kind = "return" THEN Return(ret.value.text) ELSE ret

\* A variant of the finally clause without the except of line 120.
after_cleanup_raising(ret, unlinked) ==
    IF unlinked.kind = "raise" THEN Raise("OSError") ELSE ret

\* ------------------------- finally clause (lines 116-121)
\* The outcome of transcribe_audio_file once the cleanup has run:
\* an OSError of os.unlink is caught at line 120.
after_cleanup(ret, unlinked) == ret

\* ---------------------------------------------------------------- state
NoService == 0

VARIABLES
    imported,      \* the module has been imported: stt_service exists
    _service,      \* stt_service._service: NoService, or the caller whose svc it is
    model,         \* model[c]: self.model of the service caller c constructed
    files,         \* the paths that exist on disk
    pc,            \* where each caller is in its call
    op,            \* the operation each caller is running
    file_path,     \* its path argument, or temp_file.name once an upload has its file
    language,      \* its language argument
    target,        \* the service __getattr__ handed the call to
    ret,           \* what the inner transcribe_audio call returned or raised
    result,        \* what the caller receives
    calls,         \* method accesses on the handle so far
    loadCalls,     \* executions of _load_model so far
    loadFailures,  \* executions of _load_model that raised
    invocations,   \* invocations of self.model.transcribe in each caller's call
    sample,        \* input of the direct calls on a loaded service
    computed,      \* outcome of the direct call on sample
    passed         \* the option dicts the direct call handed to self.model.transcribe

vars == <<imported, _service, model, files, pc, op, file_path, language, target, ret,
          result, calls, loadCalls, loadFailures, invocations, sample, computed, passed>>

handleVars == <<imported, _service, model, files, pc, op, file_path, language, target, ret,
                result, calls, loadCalls, loadFailures, invocations>>

Operations == {"transcribe_audio", "transcribe_audio_file", "legacy"}
AudioPaths == {"speech.webm", "missing.webm"}
\* The names tempfile can give: prefix "tmp", a part that differs from name
\* to name, suffix ".webm" (line 110).
temp_name(n) == "tmp" \o ToString(n) \o ".webm"

NoSample == [kind |-> "none"]

\* What whisper may answer to a caller of the shared handle.
HandleAnswers ==
    { Raise("RuntimeError"),
      Return([text |-> PyStr(<<" ", "a">>), language |-> PyStr(<<"e", "n">>),
              segments |-> PyList(<<[end |-> Key(1), no_speech_prob |-> Key(0)]>>)]),
      Return([text |-> PyStr(<<"a", "\n">>), language |-> Missing, segments |-> Missing]) }

\* A handle that holds no service: line 132 has run or is still to run.
HandleUnloaded ==
    /\ _service = NoService
    /\ model = [c \in Callers |-> "None"]
    /\ files = {"speech.webm"}
    /\ pc = [c \in Callers |-> "idle"]
    /\ op = [c \in Callers |-> "none"]
    /\ file_path = [c \in Callers |-> ""]
    /\ language = [c \in Callers |-> PyNone]
    /\ target = [c \in Callers |-> NoService]
    /\ ret = [c \in Callers |-> NoOutcome]
    /\ result = [c \in Callers |-> NoOutcome]
    /\ calls = 0
    /\ loadCalls = 0
    /\ loadFailures = 0
    /\ invocations = [c \in Callers |-> 0]

HandleInit ==
    /\ imported = FALSE
    /\ HandleUnloaded

Init ==
    /\ HandleInit
    /\ sample = NoSample
    /\ computed = NoOutcome
    /\ passed = <<>>

\* ------------------------------------------------ _LazySTT (lines 123-149)
\* A variant of the import that loads the model at once, as a module-level
\* SpeechToTextService would.
import_module_eager ==
    /\ ~imported
    /\ imported' = TRUE
    /\ _service' = 1
    /\ model' = [model EXCEPT ![1] = "loaded"]
    /\ loadCalls' = loadCalls + 1
    /\ UNCHANGED <<files, pc, op, file_path, language, target, ret, result, calls,
                   loadFailures, invocations, sample, computed, passed>>

\* stt_service = _LazySTT(): line 149 running __init__, lines 131-132.
import_module ==
    /\ ~imported
    /\ imported' = TRUE
    /\ _service' = NoService
    /\ UNCHANGED <<model, files, pc, op, file_path, language, target, ret, result, calls,
                   loadCalls, loadFailures, invocations, sample, computed, passed>>

\* A variant of line 135 that loads on every access.
needs_load_always(service) == TRUE

\* line 135: if self._service is None
needs_load(service) == service = NoService

\* A variant of _ensure that assigns self._service before the model is loaded.
begin_call_publishing(c, o, p, l) ==
    /\ imported
    /\ pc[c] = "idle"
    /\ calls < MaxCalls
    /\ calls' = calls + 1
    /\ op' = [op EXCEPT ![c] = o]
    /\ file_path' = [file_path EXCEPT ![c] = p]
    /\ language' = [language EXCEPT ![c] = l]
    /\ IF needs_load(_service)
         THEN /\ pc' = [pc EXCEPT ![c] = "load"]
              /\ model' = [model EXCEPT ![c] = "None"]
              /\ _service' = c
         ELSE /\ pc' = [pc EXCEPT ![c] = "getattr"]
              /\ UNCHANGED <<model, _service>>
    /\ UNCHANGED <<imported, files, target, ret, result, loadCalls, loadFailures,
                   invocations, sample, computed, passed>>

\* A caller accesses a method of stt_service: __getattr__ (line 143) enters
\* _ensure, which reads self._service (line 135) and, when it is None,
\* constructs a new SpeechToTextService (line 138, __init__ sets model = None).
begin_call(c, o, p, l) ==
    /\ imported
    /\ pc[c] = "idle"
    /\ calls < MaxCalls
    /\ calls' = calls + 1
    /\ op' = [op EXCEPT ![c] = o]
    /\ file_path' = [file_path EXCEPT ![c] = p]
    /\ language' = [language EXCEPT ![c] = l]
    /\ IF needs_load(_service)
         THEN /\ pc' = [pc EXCEPT ![c] = "load"]
              /\ model' = [model EXCEPT ![c] = constructed_model]
         ELSE /\ pc' = [pc EXCEPT ![c] = "getattr"]
              /\ UNCHANGED model
    /\ UNCHANGED <<imported, _service, files, target, ret, result, loadCalls, loadFailures,
                   invocations, sample, computed, passed>>

call_transcribe_audio(c) ==
    \E p \in AudioPaths, l \in {PyNone, PyStr(<<"e", "n">>)} :
        begin_call(c, "transcribe_audio", p, l)

call_legacy(c) ==
    \E p \in AudioPaths : begin_call(c, "legacy", p, PyNone)

call_transcribe_audio_file(c) ==
    \E l \in {PyNone, PyStr(<<"e", "n">>)} :
        begin_call(c, "transcribe_audio_file", "", l)

\* A variant of _load_model whose except clause does not re-raise.
_load_model_swallow(c) ==
    /\ pc[c] = "load"
    /\ loadCalls' = loadCalls + 1
    /\ \/ /\ model' = [model EXCEPT ![c] = "loaded"]
          /\ pc' = [pc EXCEPT ![c] = "publish"]
          /\ UNCHANGED <<result, loadFailures>>
       \/ /\ loadFailures' = loadFailures + 1
          /\ pc' = [pc EXCEPT ![c] = "publish"]
          /\ UNCHANGED <<result, model>>
    /\ UNCHANGED <<imported, _service, files, op, file_path, language, target, ret, calls,
                   invocations, sample, computed, passed>>

\* svc._load_model() at line 140: whisper.load_model succeeds and the model is
\* stored (line 32), or it raises and the exception leaves _ensure and
\* __getattr__ (lines 34-36).
_load_model(c) ==
    /\ pc[c] = "load"
    /\ loadCalls' = loadCalls + 1
    /\ \/ /\ model' = [model EXCEPT ![c] = "loaded"]
          /\ pc' = [pc EXCEPT ![c] = "publish"]
          /\ UNCHANGED <<result, loadFailures>>
       \/ /\ loadFailures' = loadFailures + 1
          /\ result' = [result EXCEPT ![c] = Raise("MemoryError")]
          /\ pc' = [pc EXCEPT ![c] = "done"]
          /\ UNCHANGED model
    /\ UNCHANGED <<imported, _service, files, op, file_path, language, target, ret, calls,
                   invocations, sample, computed, passed>>

\* self._service = svc, line 141.
publish(c) ==
    /\ pc[c] = "publish"
    /\ _service' = c
    /\ pc' = [pc EXCEPT ![c] = "getattr"]
    /\ UNCHANGED <<imported, model, files, op, file_path, language, target, ret, result,
                   calls, loadCalls, loadFailures, invocations, sample, computed, passed>>

\* return getattr(self._service, item), line 145: the bound method of the
\* service the handle holds now.
__getattr__(c) ==
    /\ pc[c] = "getattr"
    /\ target' = [target EXCEPT ![c] = _service]
    /\ pc' = [pc EXCEPT ![c] =
                IF op[c] = "transcribe_audio_file" THEN "tempfile" ELSE "exists"]
    /\ UNCHANGED <<imported, _service, model, files, op, file_path, language, ret, result,
                   calls, loadCalls, loadFailures, invocations, sample, computed, passed>>

\* ------------------------- transcribe_audio_file (lines 98-121)
\* The name a new temporary file gets: one that no file on disk has and that
\* no call under way was given (tempfile draws names at random and retries on
\* a name that exists; the first free one stands for any of them).
NamedTemporaryFile ==
    LET free == { n \in 1..MaxCalls :
                    /\ temp_name(n) \notin files
                    /\ \A d \in Callers : file_path[d] # temp_name(n) }
    IN  temp_name(CHOOSE n \in free : \A m \in free : n <= m)

\* The errors tempfile.NamedTemporaryFile raises when it cannot create the
\* file: no usable temporary directory, creation refused, no space left.
TempfileErrors == {"FileNotFoundError", "PermissionError", "OSError"}

\* line 110: tempfile.NamedTemporaryFile(delete=False, suffix='.webm') creates
\* the file, or raises; the line is outside the try of line 114, so the call
\* ends there with no file and nothing to clean up.
tempfile_create(c) ==
    /\ pc[c] = "tempfile"
    /\ \/ /\ file_path' = [file_path EXCEPT ![c] = NamedTemporaryFile]
          /\ files' = files \cup {NamedTemporaryFile}
          /\ pc' = [pc EXCEPT ![c] = "save"]
          /\ UNCHANGED result
       \/ \E exc \in TempfileErrors :
            /\ result' = [result EXCEPT ![c] = Raise(exc)]
            /\ pc' = [pc EXCEPT ![c] = "done"]
            /\ UNCHANGED <<file_path, files>>
    /\ UNCHANGED <<imported, _service, model, op, language, target, ret,
                   calls, loadCalls, loadFailures, invocations, sample, computed, passed>>

\* line 111: audio_file.save(temp_file.name) opens the path for writing
\* (creating the file again when it is gone) and copies the upload, or
\* raises -- before it opened the path, or after (the copy fails), and then
\* the file exists when the exception leaves.  An exception here is outside
\* the try of line 114 and leaves through the with statement, which closes
\* the file and does not delete it (delete=False).
save(c) ==
    /\ pc[c] = "save"
    /\ \/ /\ files' = files \cup {file_path[c]}
          /\ pc' = [pc EXCEPT ![c] = "flush"]
          /\ UNCHANGED result
       \/ \E opened \in BOOLEAN :
            /\ result' = [result EXCEPT ![c] = Raise("OSError")]
            /\ pc' = [pc EXCEPT ![c] = "done"]
            /\ files' = IF opened THEN files \cup {file_path[c]} ELSE files
    /\ UNCHANGED <<imported, _service, model, op, file_path, language, target, ret,
                   calls, loadCalls, loadFailures, invocations, sample, computed, passed>>

\* line 112: temp_file.flush(), also outside the try.
flush(c) ==
    /\ pc[c] = "flush"
    /\ \/ /\ pc' = [pc EXCEPT ![c] = "exists"]
          /\ UNCHANGED result
       \/ /\ result' = [result EXCEPT ![c] = Raise("OSError")]
          /\ pc' = [pc EXCEPT ![c] = "done"]
    /\ UNCHANGED <<imported, _service, model, files, op, file_path, language, target, ret,
                   calls, loadCalls, loadFailures, invocations, sample, computed, passed>>

\* transcribe_audio leaves with outcome r (line 75 or 79), and so does its
\* caller: the method call itself, the legacy function (lines 161-162), or
\* the try of line 115, which goes on to the finally clause.
leave_transcribe_audio(c, r) ==
    /\ ret' = [ret EXCEPT ![c] = r]
    /\ CASE op[c] = "transcribe_audio" ->
              /\ result' = [result EXCEPT ![c] = r]
              /\ pc' = [pc EXCEPT ![c] = "done"]
         [] op[c] = "legacy" ->
              /\ result' = [result EXCEPT ![c] = legacy_return(r)]
              /\ pc' = [pc EXCEPT ![c] = "done"]
         [] op[c] = "transcribe_audio_file" ->
              /\ pc' = [pc EXCEPT ![c] = "unlink"]
              /\ UNCHANGED result

\* lines 50-51 of transcribe_audio on the service the handle forwarded to:
\* the path is looked up now; the model is invoked later.
path_check(c) ==
    /\ pc[c] = "exists"
    /\ LET checked == check_path(file_path[c] \in files)
       IN  IF checked.kind = "raise"
             THEN leave_transcribe_audio(c, checked)
             ELSE /\ pc' = [pc EXCEPT ![c] = "transcribe"]
                  /\ UNCHANGED <<ret, result>>
    /\ UNCHANGED <<imported, _service, model, files, op, file_path, language, target,
                   calls, loadCalls, loadFailures, invocations, sample, computed, passed>>

\* What whisper may do at line 64: it cannot read a file that has gone
\* since the check, and raises.
answers_for(exists) ==
    IF exists THEN HandleAnswers ELSE { a \in HandleAnswers : a.kind = "raise" }

\* lines 53-79: the options are built, self.model.transcribe runs (line 64),
\* its result is normalised, and the method and its caller return.
transcribe(c) ==
    /\ pc[c] = "transcribe"
    /\ \E answer \in answers_for(file_path[c] \in files) :
         /\ leave_transcribe_audio(c, transcribe_checked(model[target[c]], language[c], answer))
         /\ invocations' = [invocations EXCEPT ![c] =
                              IF invokes_model(TRUE, model[target[c]]) THEN @ + 1 ELSE @]
    /\ UNCHANGED <<imported, _service, model, files, op, file_path, language, target,
                   calls, loadCalls, loadFailures, sample, computed, passed>>

\* lines 116-121: os.unlink(temp_file.name) removes the file, or raises an
\* OSError (the file is already gone, or the removal is refused and the file
\* stays); then the outcome of line 115 leaves the function.
unlink(c) ==
    /\ pc[c] = "unlink"
    /\ \/ /\ file_path[c] \in files
          /\ files' = files \ {file_path[c]}
          /\ result' = [result EXCEPT ![c] = after_cleanup(ret[c], Return(PyNone))]
       \/ /\ file_path[c] \in files
          /\ UNCHANGED files
          /\ result' = [result EXCEPT ![c] = after_cleanup(ret[c], Raise("PermissionError"))]
       \/ /\ file_path[c] \notin files
          /\ UNCHANGED files
          /\ result' = [result EXCEPT ![c] = after_cleanup(ret[c], Raise("FileNotFoundError"))]
    /\ pc' = [pc EXCEPT ![c] = "done"]
    /\ UNCHANGED <<imported, _service, model, op, file_path, language, target, ret,
                   calls, loadCalls, loadFailures, invocations, sample, computed, passed>>

\* Something else in the system removes the temporary file while the call is
\* under way ("already removed" at line 119).
external_remove(c) ==
    /\ op[c] = "transcribe_audio_file"
    /\ pc[c] \in {"save", "flush", "exists", "transcribe", "unlink"}
    /\ file_path[c] \in files
    /\ files' = files \ {file_path[c]}
    /\ UNCHANGED <<imported, _service, model, pc, op, file_path, language, target, ret,
                   result, calls, loadCalls, loadFailures, invocations, sample, computed, passed>>

\* The caller has its outcome and is free to call again.
finish(c) ==
    /\ pc[c] = "done"
    /\ pc' = [pc EXCEPT ![c] = "idle"]
    /\ op' = [op EXCEPT ![c] = "none"]
    /\ file_path' = [file_path EXCEPT ![c] = ""]
    /\ language' = [language EXCEPT ![c] = PyNone]
    /\ target' = [target EXCEPT ![c] = NoService]
    /\ ret' = [ret EXCEPT ![c] = NoOutcome]
    /\ result' = [result EXCEPT ![c] = NoOutcome]
    /\ invocations' = [invocations EXCEPT ![c] = 0]
    /\ UNCHANGED <<imported, _service, model, files, calls, loadCalls, loadFailures,
                   sample, computed, passed>>

\* Callers of the path-based operations of the shared handle.
Next ==
    \/ import_module
    \/ \E c \in Callers : call_transcribe_audio(c)
    \/ \E c \in Callers : call_legacy(c)
    \/ \E c \in Callers : _load_model(c)
    \/ \E c \in Callers : publish(c)
    \/ \E c \in Callers : __getattr__(c)
    \/ \E c \in Callers : path_check(c)
    \/ \E c \in Callers : transcribe(c)
    \/ \E c \in Callers : finish(c)

Spec == Init /\ [][Next]_vars

\* Upload requests on the shared handle.
UploadNext ==
    \/ import_module
    \/ \E c \in Uploaders : call_transcribe_audio_file(c)
    \/ \E c \in Uploaders : _load_model(c)
    \/ \E c \in Uploaders : publish(c)
    \/ \E c \in Uploaders : __getattr__(c)
    \/ \E c \in Uploaders : tempfile_create(c)
    \/ \E c \in Uploaders : save(c)
    \/ \E c \in Uploaders : flush(c)
    \/ \E c \in Uploaders : path_check(c)
    \/ \E c \in Uploaders : transcribe(c)
    \/ \E c \in Uploaders : unlink(c)
    \/ \E c \in Uploaders : external_remove(c)
    \/ \E c \in Uploaders : finish(c)

SpecUpload == Init /\ [][UploadNext]_vars

\* ------------------------------------------------ direct calls
\* A SpeechToTextService used without the handle: transcribe_audio and
\* _calculate_confidence applied to one input each.
TranscribeSamples ==
    [kind : {"transcribe_audio"},
     exists : BOOLEAN,
     model : {"loaded"},
     language : LanguageHints,
     answer : { Return(r) : r \in WhisperResults }]
    \cup
    [kind : {"transcribe_audio"},
     exists : BOOLEAN,
     model : {constructed_model, "loaded"},
     language : LanguageHints,
     answer : { Raise("RuntimeError") }]

ConfidenceSamples == [kind : {"_calculate_confidence"}, segments : SegmentLists]

EnsureSamples == [kind : {"_ensure"}, env : EnvValues]

DirectInit ==
    /\ imported = TRUE
    /\ HandleUnloaded
    /\ sample \in TranscribeSamples \cup ConfidenceSamples \cup EnsureSamples
    /\ computed = NoOutcome
    /\ passed = <<>>

direct_transcribe_audio ==
    /\ sample.kind = "transcribe_audio"
    /\ computed = NoOutcome
    /\ computed' = transcribe_audio(sample.exists, sample.model, sample.language, sample.answer)
    /\ passed' = IF invokes_model(sample.exists, sample.model)
                   THEN Append(passed, build_options(sample.language))
                   ELSE passed
    /\ UNCHANGED <<sample, handleVars>>

direct_calculate_confidence ==
    /\ sample.kind = "_calculate_confidence"
    /\ computed = NoOutcome
    /\ computed' = Return(_calculate_confidence(sample.segments))
    /\ UNCHANGED <<sample, passed, handleVars>>

\* _ensure called on the handle by thread c, lines 135-139: self._service is
\* read; when it is None a service is constructed with the model size the
\* environment gives, otherwise _ensure returns at once.
direct_ensure(c) ==
    /\ sample.kind = "_ensure"
    /\ imported
    /\ pc[c] = "idle"
    /\ calls < MaxCalls
    /\ calls' = calls + 1
    /\ op' = [op EXCEPT ![c] = "_ensure"]
    /\ IF needs_load(_service)
         THEN /\ pc' = [pc EXCEPT ![c] = "load"]
              /\ model' = [model EXCEPT ![c] = constructed_model]
              /\ UNCHANGED result
         ELSE /\ pc' = [pc EXCEPT ![c] = "done"]
              /\ result' = [result EXCEPT ![c] = Return(PyNone)]
              /\ UNCHANGED model
    /\ UNCHANGED <<imported, _service, files, file_path, language, target, ret,
                   loadCalls, loadFailures, invocations, sample, computed, passed>>

\* line 140 of that call: svc._load_model() gives whisper.load_model the
\* model size; the load returns and the model is stored (line 32), or it
\* raises and the exception leaves _ensure with nothing published.
direct_load_model(c) ==
    /\ sample.kind = "_ensure"
    /\ pc[c] = "load"
    /\ loadCalls' = loadCalls + 1
    /\ \/ /\ model' = [model EXCEPT ![c] = "loaded"]
          /\ pc' = [pc EXCEPT ![c] = "publish"]
          /\ computed' = Return([model_size |-> ensure_model_size(sample.env),
                                 load_args |-> load_model_args(ensure_model_size(sample.env))])
          /\ UNCHANGED <<result, loadFailures>>
       \/ /\ loadFailures' = loadFailures + 1
          /\ result' = [result EXCEPT ![c] = Raise("MemoryError")]
          /\ pc' = [pc EXCEPT ![c] = "done"]
          /\ computed' = Raise("MemoryError")
          /\ UNCHANGED model
    /\ UNCHANGED <<imported, _service, files, op, file_path, language, target, ret, calls,
                   invocations, sample, passed>>

\* line 141 of that call: self._service = svc, and _ensure returns.
direct_publish(c) ==
    /\ sample.kind = "_ensure"
    /\ pc[c] = "publish"
    /\ _service' = c
    /\ result' = [result EXCEPT ![c] = Return(PyNone)]
    /\ pc' = [pc EXCEPT ![c] = "done"]
    /\ UNCHANGED <<imported, model, files, op, file_path, language, target, ret,
                   calls, loadCalls, loadFailures, invocations, sample, computed, passed>>

DirectNext ==
    \/ direct_transcribe_audio
    \/ direct_calculate_confidence
    \/ \E c \in Callers : direct_ensure(c)
    \/ \E c \in Callers : direct_load_model(c)
    \/ \E c \in Callers : direct_publish(c)

SpecDirect == DirectInit /\ [][DirectNext]_vars

\* ================================================================ claims

\* C1: concurrent first accesses run the loader at most once -- every
\* execution of _load_model beyond the first follows a load that raised
\* (a failed load may be retried, a load that succeeded is never repeated).
C1_LoadAtMostOnce == loadCalls <= 1 + loadFailures

\* C2: a transcribe_audio_file call that created its temporary file leaves
\* it deleted when the call returns or raises, whatever step failed.
C2_TempFileDeleted ==
    \A c \in Callers :
        (pc[c] = "done" /\ op[c] = "transcribe_audio_file" /\ file_path[c] # "")
            => file_path[c] \notin files

\* C3: a load that fails is raised to the caller of the access that
\* triggered it and leaves _service as it was, and an access made while the
\* handle is unloaded attempts the load however many loads have failed.
C3_LoadFailureRaisedNotCached ==
    [][\A c \in Callers :
          /\ (pc[c] = "load" /\ pc'[c] # "load" /\ model'[c] # "loaded")
                => /\ pc'[c] = "done"
                   /\ result'[c] = Raise("MemoryError")
                   /\ _service' = _service
          /\ (pc[c] = "idle" /\ pc'[c] # "idle" /\ _service = NoService /\ loadFailures > 0)
                => pc'[c] = "load"]_vars

C3_Witness ==
    \E c \in Callers :
        /\ pc[c] = "load"
        /\ loadFailures >= 1
        /\ _service = NoService
        /\ \A d \in Callers : d # c => pc[d] = "idle"

\* C4 as stated: transcribe_audio on a path that does not exist ends with
\* FileNotFoundError in every load state of the handle.
C4_MissingPathAlwaysFileNotFound ==
    \A c \in Callers :
        (pc[c] = "done" /\ op[c] = "transcribe_audio" /\ file_path[c] \notin files)
            => (result[c].kind = "raise" /\ result[c].exc = "FileNotFoundError")

\* C4 amended: transcribe_audio on a path that does not exist ends with
\* FileNotFoundError when the handle was loaded or its load succeeded, and
\* with the load's own error when the load the access triggered failed.
C4_MissingPathFileNotFoundUnlessLoadFails ==
    \A c \in Callers :
        (pc[c] = "done" /\ op[c] = "transcribe_audio" /\ file_path[c] \notin files)
            => /\ result[c].kind = "raise"
               /\ result[c].exc =
                    IF target[c] = NoService THEN "MemoryError" ELSE "FileNotFoundError"

C4_Witness ==
    \E c \in Callers :
        /\ pc[c] = "done"
        /\ op[c] = "transcribe_audio"
        /\ file_path[c] \notin files
        /\ target[c] # NoService
        /\ result[c] = Raise("FileNotFoundError")

\* C5: creating the handle loads nothing -- as long as no method of the
\* handle has been accessed, no load has run, the handle is unloaded and no
\* service holds a model.
C5_NoLoadBeforeFirstAccess ==
    calls = 0 => (loadCalls = 0 /\ _service = NoService /\ \A c \in Callers : model[c] = "None")

C5_Witness == imported /\ calls = 0 /\ loadCalls = 0

\* C6: once the handle is loaded it is never unloaded again, and an access
\* that begins while it is loaded goes straight to the forwarding without
\* running the loader.
C6_EnsureIdempotent ==
    [][_service # NoService =>
          /\ _service' # NoService
          /\ \A c \in Callers :
                (pc[c] = "idle" /\ pc'[c] # "idle")
                    => (pc'[c] = "getattr" /\ loadCalls' = loadCalls)]_vars

C6_Witness ==
    \E c \in Callers :
        /\ pc[c] = "done"
        /\ result[c].kind = "return"
        /\ model[c] = "None"
        /\ _service # NoService
        /\ _service # c

\* C7: in transcribe_audio_file the caller receives exactly what the inner
\* transcribe_audio returned or raised, whether or not the temporary file
\* could be deleted.
C7_CleanupKeepsOutcome ==
    \A c \in Callers :
        (pc[c] = "done" /\ op[c] = "transcribe_audio_file" /\ ret[c].kind # "none")
            => /\ result[c].kind = ret[c].kind
               /\ result[c] = ret[c]

C7_Witness ==
    \E c \in Callers :
        /\ pc[c] = "done"
        /\ op[c] = "transcribe_audio_file"
        /\ ret[c].kind = "return"
        /\ file_path[c] \in files
        /\ result[c].kind = "return"

\* The text component of an outcome of transcribe_audio: the text of a
\* returned pair, the failure itself otherwise.
TextOf(outcome) ==
    IF outcome.kind = "return" THEN Return(outcome.value.text) ELSE outcome

\* C8: the legacy function ends as transcribe_audio ends on the same path
\* with no language hint -- with the text of a pair that call can return, or
\* with a failure that call can raise (the load's failure included).
C8_LegacyIsTextOfTranscribe ==
    \A c \in Callers :
        (pc[c] = "done" /\ op[c] = "legacy")
            => IF target[c] = NoService
                 THEN result[c].kind = "raise" /\ result[c].exc = "MemoryError"
                 ELSE \E answer \in HandleAnswers :
                        LET full == transcribe_audio(file_path[c] \in files, model[target[c]],
                                                     PyNone, answer)
                        IN  /\ result[c].kind = full.kind
                            /\ result[c] = TextOf(full)

C8_Witness ==
    \E c, d \in Callers :
        /\ pc[c] = "done" /\ op[c] = "legacy" /\ result[c].kind = "return"
        /\ pc[d] = "done" /\ op[d] = "transcribe_audio" /\ result[d].kind = "return"
        /\ file_path[d] = file_path[c]
        /\ language[d] = PyNone
        /\ result[c].value = result[d].value.text

\* C9: a successful transcribe_audio reports as segment count the number of
\* segments of the model's result, and as duration the end offset of the
\* last segment, or 0 when the segment list is empty or missing.
C9_SegmentCountAndDuration ==
    (sample.kind = "transcribe_audio" /\ computed.kind = "return")
        => LET given == sample.answer.value.segments
               segs == IF given.t = "list" THEN given.v ELSE <<>>
               md == computed.value.metadata
           IN  /\ md.segments = Len(segs)
               /\ segs = <<>> => md.duration = 0
               /\ (segs # <<>> /\ segs[Len(segs)].end # NoKey)
                     => md.duration = segs[Len(segs)].end[1]

C9_Witness ==
    /\ sample.kind = "transcribe_audio"
    /\ computed.kind = "return"
    /\ sample.answer.value.segments.t = "list"
    /\ LET segs == sample.answer.value.segments.v
       IN  /\ Len(segs) >= 2
           /\ segs[1].end # NoKey
           /\ segs[Len(segs)].end # NoKey
           /\ segs[1].end # segs[Len(segs)].end
           /\ computed.value.metadata.duration = segs[Len(segs)].end[1]

\* The segments that carry a no-speech probability, and the sum of
\* 1 - probability over them, in units of 1 / ProbDenominator.
Carrying(segs) == SelectSeq(segs, LAMBDA g : g.no_speech_prob # NoKey)

RECURSIVE SumConfidence(_)
SumConfidence(segs) ==
    IF segs = <<>> THEN 0
    ELSE (ProbDenominator - Head(segs).no_speech_prob[1]) + SumConfidence(Tail(segs))

\* C10: the confidence of a segment list is the unweighted mean of
\* 1 - no_speech_prob over the segments that carry the key, and 0.0 when no
\* segment carries it.
C10_ConfidenceIsMeanOverCarrying ==
    (sample.kind = "_calculate_confidence" /\ computed.kind = "return")
        => LET q == Carrying(sample.segments)
               conf == computed.value
           IN  /\ conf.den > 0
               /\ Len(q) = 0 => conf.num = 0
               /\ Len(q) > 0 =>
                    conf.num * (Len(q) * ProbDenominator) = conf.den * SumConfidence(q)

C10_Witness ==
    /\ sample.kind = "_calculate_confidence"
    /\ computed.kind = "return"
    /\ Len(Carrying(sample.segments)) >= 1
    /\ Len(Carrying(sample.segments)) < Len(sample.segments)
    /\ computed.value.num > 0

\* C11: the options handed to the model's transcribe have no language key
\* when the caller gave no hint, have the caller's value under the language
\* key whenever a hint was given (the empty string included), and always
\* have task = "transcribe" and fp16 = False.
C11_LanguageKeyOnlyWhenHinted ==
    (sample.kind = "transcribe_audio" /\ passed # <<>>)
        => LET options == passed[1]
           IN  /\ ("language" \in DOMAIN options) <=> (sample.language.t # "None")
               /\ ("language" \in DOMAIN options) => options["language"] = sample.language
               /\ "task" \in DOMAIN options
               /\ options["task"].v = <<"transcribe">>
               /\ "fp16" \in DOMAIN options
               /\ options["fp16"].v = FALSE

C11_Witness ==
    /\ sample.kind = "transcribe_audio"
    /\ passed # <<>>
    /\ sample.language.t = "str"
    /\ sample.language.v = <<>>
    /\ "language" \in DOMAIN passed[1]
    /\ passed[1]["language"].v = <<>>

\* C12: whenever the model's transcribe returns a result, transcribe_audio
\* returns a text, and a result whose text is missing or None gives the
\* empty string.
C12_ReturnedResultGivesText ==
    (/\ sample.kind = "transcribe_audio"
     /\ sample.exists
     /\ sample.model = "loaded"
     /\ sample.answer.kind = "return"
     /\ computed.kind # "none")
        => /\ computed.kind = "return"
           /\ sample.answer.value.text.t \in {"missing", "None"} => computed.value.text = <<>>

\* C13: callers that meet the unloaded handle together share one load -- no
\* two of them are loading at the same time, and all calls that are forwarded
\* run on the same service.
C13_SingleLoadShared ==
    \A c, d \in Callers :
        /\ (pc[c] \in {"load", "publish"} /\ pc[d] \in {"load", "publish"}) => c = d
        /\ (target[c] # NoService /\ target[d] # NoService) => target[c] = target[d]

\* C14: when the model's transcribe raises, transcribe_audio raises the same
\* error, and the model's transcribe was invoked exactly once in the call.
C14_ModelErrorPropagatesUnchanged ==
    (/\ sample.kind = "transcribe_audio"
     /\ sample.exists
     /\ sample.model = "loaded"
     /\ sample.answer.kind = "raise"
     /\ computed.kind # "none")
        => /\ computed.kind = "raise"
           /\ computed.exc = sample.answer.exc
           /\ Len(passed) = 1

C14_Witness ==
    /\ sample.kind = "transcribe_audio"
    /\ sample.exists
    /\ sample.model = "loaded"
    /\ sample.answer.kind = "raise"
    /\ computed.kind = "raise"
    /\ computed.exc = "RuntimeError"
    /\ Len(passed) = 1

\* C15: the model size the lazy handle loads is the value of WHISPER_MODEL
\* when it is set and not empty, and "tiny" when it is unset or empty.
C15_ModelSizeFromEnvironment ==
    (sample.kind = "_ensure" /\ computed.kind = "return")
        => LET expected == IF sample.env.t = "str" /\ sample.env.v # <<>>
                             THEN sample.env.v ELSE <<"tiny">>
           IN  /\ computed.value.model_size.t = "str"
               /\ computed.value.model_size.v = expected
               /\ computed.value.load_args["name"].v = expected

C15_Witness ==
    /\ sample.kind = "_ensure"
    /\ sample.env.t = "str"
    /\ sample.env.v = <<>>
    /\ computed.kind = "return"
    /\ computed.value.model_size.v = <<"tiny">>

\* C16: a transcribe_audio call on a path that does not exist ends with
\* FileNotFoundError without having invoked the model's transcribe.
C16_NoModelInvocationOnMissingPath ==
    \A c \in Callers :
        (/\ pc[c] = "done"
         /\ op[c] \in {"transcribe_audio", "legacy"}
         /\ target[c] # NoService
         /\ file_path[c] \notin files)
            => /\ invocations[c] = 0
               /\ ret[c].kind = "raise"
               /\ ret[c].exc = "FileNotFoundError"

C16_Witness ==
    \E c \in Callers :
        /\ pc[c] = "done"
        /\ op[c] = "transcribe_audio"
        /\ target[c] # NoService
        /\ file_path[c] \notin files
        /\ invocations[c] = 0
        /\ ret[c].kind = "raise"

\* C17: a SpeechToTextService is loaded by its construction -- on a service
\* that was constructed, with or without a later _load_model, transcribe_audio
\* on an existing path invokes the model.
C17_ConstructedServiceIsLoaded ==
    (sample.kind = "transcribe_audio" /\ sample.exists /\ computed.kind # "none")
        => Len(passed) = 1

\* C18: every load asks whisper for the CPU device, and every transcribe
\* invocation is given fp16 = False.
C18_CpuAndFullPrecision ==
    /\ (sample.kind = "_ensure" /\ computed.kind = "return")
          => /\ "device" \in DOMAIN computed.value.load_args
             /\ computed.value.load_args["device"].v = <<"cpu">>
    /\ (sample.kind = "transcribe_audio" /\ passed # <<>>)
          => /\ "fp16" \in DOMAIN passed[1]
             /\ passed[1]["fp16"].v = FALSE

\* C19: the service the handle holds, and every service a call was forwarded
\* to, has its model loaded.
C19_PublishedServiceIsLoaded ==
    /\ _service # NoService => model[_service] = "loaded"
    /\ \A c \in Callers : target[c] # NoService => model[target[c]] = "loaded"

C19_Witness ==
    \E c, d \in Callers :
        /\ c # d
        /\ _service = c
        /\ target[c] = c
        /\ pc[d] = "load"
        /\ model[d] = "None"

====
